---------------------------- MODULE Spec2Model ----------------------------
(***************************************************************************)
(* Model of the Telegram bot of corfa/template-async-telegram-bot:        *)
(*   src/bot/messages.py  the message providers and get_messages          *)
(*   src/bot/handlers.py  BaseHandler.__call__, the three handlers and    *)
(*                        setup_handlers                                  *)
(*                                                                         *)
(* Strings are sequences of one-character strings, so that the command    *)
(* filters and the echo are computed on the text itself.                  *)
(*                                                                         *)
(* Python's None is modelled per type: NoneUser for an absent             *)
(* effective_user, "None" for an absent is_premium, the empty text for    *)
(* message.text being None, Unset for an attribute that was never         *)
(* assigned.                                                              *)
(*                                                                         *)
(* The framework (python-telegram-bot) delivers an update to the first    *)
(* registered handler whose check accepts it.  CommandHandler listens to  *)
(* messages and edited messages; MessageHandler with a message filter     *)
(* listens to messages, edited messages and channel posts.  update.message*)
(* is set for a new message only, and a channel post has no               *)
(* effective_user.                                                        *)
(***************************************************************************)
EXTENDS Integers, Sequences, FiniteSets, TLC

VARIABLES
    updates,    \* the updates delivered so far, in delivery order
    invoked,    \* invoked[i]: the handler whose callback update i was given to
    pc,         \* pc[i]: where the callback of update i stands: "send"
                \* (suspended in reply_text), "done", "ignored" (no
                \* callback), or "raised in <place>" (an exception left it)
    hUser,      \* hUser[h]: attribute self.user of the registered instance h
    hMessages,  \* hMessages[h]: attribute self.messages of the instance h
    sent,       \* the reply_text calls made so far, in call order
    arg,        \* direct call of the provider functions: the arguments
    res         \* direct call of the provider functions: the results

vars == <<updates, invoked, pc, hUser, hMessages, sent, arg, res>>

-----------------------------------------------------------------------------
(* Bounds *)

MaxUpdates == 2

-----------------------------------------------------------------------------
(* Values *)

\* tg.User.is_premium is Optional[bool]
PremiumFlags == {"True", "False", "None"}

\* update.effective_user is None
NoneUser == [is_premium |-> "NoUser"]

Users == [is_premium : PremiumFlags]

\* bool(x) of an Optional[bool]
Truthy(flag) == flag = "True"

\* message.chat of the update
Chats == {1, 2}

T_empty == <<>>
T_ping == <<"p", "i", "n", "g">>
T_start == <<"/", "s", "t", "a", "r", "t">>
T_help == <<"/", "h", "e", "l", "p">>
T_unknown == <<"/", "u", "n", "k", "n", "o", "w", "n">>
T_slash == <<"/", " ", "p", "i", "n", "g">>
T_startArg == <<"/", "s", "t", "a", "r", "t", " ", "x">>

\* the texts given to echo() directly
Texts == {T_empty, T_ping, T_start, T_help, T_unknown, T_slash, T_startArg}

\* the texts of the delivered updates
UpdateTexts == {T_ping, T_start, T_help, T_unknown, T_slash}

\* The senders of delivered updates: the Bot API sends is_premium = true or
\* leaves it out.
UpdateUsers == {[is_premium |-> "True"], [is_premium |-> "None"]}

UpdateKinds == {"message", "edited_message", "channel_post"}

\* The updates the framework delivers.  user is update.effective_user, chat
\* and text are those of update.effective_message.
UpdateSet ==
    {u \in [kind : UpdateKinds, user : UpdateUsers \cup {NoneUser},
            chat : Chats, text : UpdateTexts] :
        (u.kind = "channel_post") <=> (u.user = NoneUser)}

\* update.message is not None
HasMessage(u) == u.kind = "message"

-----------------------------------------------------------------------------
(* src/bot/messages.py *)

AttributeError == "AttributeError"

RegularUser_start == <<"h", "e", "l", "l", "o", "!">>

RegularUser_help == <<"Y", "o", "u", " ", "n", "e", "e", "d", " ", "t", "o", " ", "p", "u", "r", "c", "h", "a", "s", "e", " ", "a", " ", "s", "u", "b", "s", "c", "r", "i", "p", "t", "i", "o", "n">>

\* f'{text}' of a str: the characters of text, one after the other
RECURSIVE Format(_)
Format(text) ==
    IF text = <<>> THEN <<>> ELSE <<Head(text)>> \o Format(Tail(text))

\* a slip: the echo drops a leading slash (text.lstrip('/'))
RegularUser_echo_lstrip(text) ==
    IF text # <<>> /\ Head(text) = "/" THEN Format(Tail(text)) ELSE Format(text)

RegularUser_echo(text) == Format(text)

\* a slip: the premium variant greets differently
PremiumUser_start_other == <<"h", "e", "l", "l", "o", " ", "p", "r", "e", "m", "i", "u", "m", "!">>

PremiumUser_start == <<"h", "e", "l", "l", "o", "!">>

PremiumUser_help == <<"h", "e", "l", "p", " ", "m", "o", "c", "k", "!">>

Providers == {"RegularUser", "PremiumUser"}

\* method resolution: PremiumUser overrides start and help and inherits echo
start(p) == IF p = "PremiumUser" THEN PremiumUser_start ELSE RegularUser_start

help(p) == IF p = "PremiumUser" THEN PremiumUser_help ELSE RegularUser_help

echo(p, text) == RegularUser_echo(text)

\* a slip: the test on is_premium written the other way round
get_messages_uninverted(user) ==
    IF user = NoneUser THEN AttributeError
    ELSE IF Truthy(user.is_premium) THEN "PremiumUser"
    ELSE "RegularUser"

\* a slip: getattr(user, 'is_premium', None), which accepts a missing user
get_messages_getattr(user) ==
    IF user = NoneUser \/ ~Truthy(user.is_premium) THEN "PremiumUser"
    ELSE "RegularUser"

get_messages(user) ==
    IF user = NoneUser THEN AttributeError
    ELSE IF ~Truthy(user.is_premium) THEN "PremiumUser"
    ELSE "RegularUser"

-----------------------------------------------------------------------------
(* src/bot/handlers.py: setup_handlers *)

CMD_start == <<"s", "t", "a", "r", "t">>
CMD_help == <<"h", "e", "l", "p">>

CommandChars == {"a", "e", "h", "k", "l", "n", "o", "p", "r", "s", "t", "u", "w"}

\* the end of the run of command characters of text that starts at i
RECURSIVE CommandEnd(_, _)
CommandEnd(text, i) ==
    IF i <= Len(text) /\ text[i] \in CommandChars
    THEN CommandEnd(text, i + 1) ELSE i - 1

\* length of the bot_command entity at offset 0 of text, 0 if there is none
BotCommandLength(text) ==
    IF Len(text) >= 2 /\ text[1] = "/" /\ text[2] \in CommandChars
    THEN CommandEnd(text, 2) ELSE 0

filters_TEXT(text) == Len(text) > 0

filters_COMMAND(text) == BotCommandLength(text) > 0

\* filters.UpdateType.MESSAGES, the default filter of a CommandHandler
UpdateType_MESSAGES(u) == u.kind \in {"message", "edited_message"}

\* tg_ext.CommandHandler(command, ...).check_update
CommandHandler(command, u) ==
    /\ filters_COMMAND(u.text)
    /\ SubSeq(u.text, 2, BotCommandLength(u.text)) = command
    /\ UpdateType_MESSAGES(u)

\* a slip: the filter is filters.TEXT alone
MessageHandler_text_only(u) == filters_TEXT(u.text)

\* tg_ext.MessageHandler(filters.TEXT & ~filters.COMMAND, ...).check_update
MessageHandler(u) == filters_TEXT(u.text) /\ ~filters_COMMAND(u.text)

\* the handlers in the order add_handler registered them (one group)
setup_handlers == <<"start", "help", "echo">>

HandlerNames == {"start", "help", "echo"}

Matches(h, u) ==
    CASE h = "start" -> CommandHandler(CMD_start, u)
      [] h = "help" -> CommandHandler(CMD_help, u)
      [] h = "echo" -> MessageHandler(u)

\* the first registered handler that accepts the update, "none" if none does
Route(u) ==
    LET hits == {k \in 1..Len(setup_handlers) : Matches(setup_handlers[k], u)}
    IN  IF hits = {} THEN "none"
        ELSE setup_handlers[CHOOSE k \in hits : \A j \in hits : k <= j]

-----------------------------------------------------------------------------
(* src/bot/handlers.py: BaseHandler and its subclasses *)

Unset == "Unset"

\* a slip: the attribute is set on the class, which all instances share
SetAttr_on_class(attrs, h, v) == [x \in DOMAIN attrs |-> v]

\* self.<attr> = v on the instance h
SetAttr(attrs, h, v) == [attrs EXCEPT ![h] = v]

\* a slip: handle() runs on the value self.messages had before this call
\* assigned it
SelfMessages_stale(h, before, after) ==
    IF before[h] = Unset THEN after[h] ELSE before[h]

\* self.messages as handle() reads it: __call__ has assigned it and has not
\* been suspended since
SelfMessages(h, before, after) == after[h]

\* the argument the handle() of h gives to reply_text
HandleText(h, p, text) ==
    CASE h = "start" -> start(p)
      [] h = "help" -> help(p)
      [] h = "echo" -> echo(p, text)

\* BaseHandler.__call__ on the instance h, up to the await of reply_text
BaseHandler_call(h, u) ==
    LET i == Len(updates) + 1
        p == get_messages(u.user)
        newMessages == SetAttr(hMessages, h, p)
    IN  /\ updates' = Append(updates, u)
        /\ invoked' = Append(invoked, h)
        /\ hUser' = SetAttr(hUser, h, u.user)
        /\ IF p = AttributeError
           THEN \* get_messages raises at user.is_premium
                /\ pc' = Append(pc, "raised in get_messages")
                /\ UNCHANGED <<hMessages, sent>>
           ELSE /\ hMessages' = newMessages
                /\ IF ~HasMessage(u)
                   THEN \* update.message.reply_text raises at None.reply_text
                        /\ pc' = Append(pc, "raised in handle")
                        /\ sent' = sent
                   ELSE /\ pc' = Append(pc, "send")
                        /\ sent' = Append(sent,
                              [upd |-> i, chat |-> u.chat,
                               text |-> HandleText(h,
                                   SelfMessages(h, hMessages, newMessages),
                                   u.text)])
        /\ UNCHANGED <<arg, res>>

\* the framework gives the next update to the callback registered for it
StartHandler ==
    \E u \in UpdateSet :
        /\ Len(updates) < MaxUpdates
        /\ Route(u) = "start"
        /\ BaseHandler_call("start", u)

HelpHandler ==
    \E u \in UpdateSet :
        /\ Len(updates) < MaxUpdates
        /\ Route(u) = "help"
        /\ BaseHandler_call("help", u)

EchoHandler ==
    \E u \in UpdateSet :
        /\ Len(updates) < MaxUpdates
        /\ Route(u) = "echo"
        /\ BaseHandler_call("echo", u)

\* no registered handler accepts the update: the framework drops it
Unhandled ==
    \E u \in UpdateSet :
        /\ Len(updates) < MaxUpdates
        /\ Route(u) = "none"
        /\ updates' = Append(updates, u)
        /\ invoked' = Append(invoked, "none")
        /\ pc' = Append(pc, "ignored")
        /\ UNCHANGED <<hUser, hMessages, sent, arg, res>>

\* the awaited reply_text returns: handle() and __call__ return
ReplySent ==
    \E i \in 1..Len(pc) :
        /\ pc[i] = "send"
        /\ pc' = [pc EXCEPT ![i] = "done"]
        /\ UNCHANGED <<updates, invoked, hUser, hMessages, sent, arg, res>>

\* the awaited reply_text raises: nothing catches it, the callback ends
ReplyFailed ==
    \E i \in 1..Len(pc) :
        /\ pc[i] = "send"
        /\ pc' = [pc EXCEPT ![i] = "raised in reply_text"]
        /\ UNCHANGED <<updates, invoked, hUser, hMessages, sent, arg, res>>

NoCall == [called |-> {}, provider |-> Unset, start |-> <<>>, help |-> <<>>,
           echo |-> <<>>]

BotInit ==
    /\ updates = <<>>
    /\ invoked = <<>>
    /\ pc = <<>>
    /\ hUser = [h \in HandlerNames |-> NoneUser]
    /\ hMessages = [h \in HandlerNames |-> Unset]
    /\ sent = <<>>

Init ==
    /\ BotInit
    /\ arg = [user |-> NoneUser, text |-> <<>>]
    /\ res = NoCall

Next ==
    \/ StartHandler
    \/ HelpHandler
    \/ EchoHandler
    \/ Unhandled
    \/ ReplySent
    \/ ReplyFailed

Spec == Init /\ [][Next]_vars

-----------------------------------------------------------------------------
(* The provider functions called directly *)

botVars == <<updates, invoked, pc, hUser, hMessages, sent>>

InitPure ==
    /\ BotInit
    /\ arg \in [user : Users \cup {NoneUser}, text : Texts]
    /\ res = NoCall

CallGetMessages ==
    /\ "get_messages" \notin res.called
    /\ res' = [res EXCEPT !.called = @ \cup {"get_messages"},
                          !.provider = get_messages(arg.user)]
    /\ UNCHANGED <<arg, botVars>>

CallStart ==
    /\ res.provider \in Providers
    /\ "start" \notin res.called
    /\ res' = [res EXCEPT !.called = @ \cup {"start"},
                          !.start = start(res.provider)]
    /\ UNCHANGED <<arg, botVars>>

CallHelp ==
    /\ res.provider \in Providers
    /\ "help" \notin res.called
    /\ res' = [res EXCEPT !.called = @ \cup {"help"},
                          !.help = help(res.provider)]
    /\ UNCHANGED <<arg, botVars>>

CallEcho ==
    /\ res.provider \in Providers
    /\ "echo" \notin res.called
    /\ res' = [res EXCEPT !.called = @ \cup {"echo"},
                          !.echo = echo(res.provider, arg.text)]
    /\ UNCHANGED <<arg, botVars>>

NextPure ==
    \/ CallGetMessages
    \/ CallStart
    \/ CallHelp
    \/ CallEcho

SpecPure == InitPure /\ [][NextPure]_vars

-----------------------------------------------------------------------------
(* Properties of the provider functions, under SpecPure *)

StrHello == <<"h", "e", "l", "l", "o", "!">>

StrHelpMock == <<"h", "e", "l", "p", " ", "m", "o", "c", "k", "!">>

StrNeedSubscription == <<"Y", "o", "u", " ", "n", "e", "e", "d", " ", "t", "o", " ", "p", "u", "r", "c", "h", "a", "s", "e", " ", "a", " ", "s", "u", "b", "s", "c", "r", "i", "p", "t", "i", "o", "n">>

\* C1: the help() of the provider get_messages returns for a user is
\* "You need to purchase a subscription" when the user is premium and
\* "help mock!" when the user is not (is_premium False or None).
C1_HelpByTier ==
    "help" \in res.called =>
        res.help = IF arg.user.is_premium = "True"
                   THEN StrNeedSubscription ELSE StrHelpMock

C1_Witness ==
    /\ "help" \in res.called
    /\ arg.user.is_premium = "True"
    /\ res.help = StrNeedSubscription

\* C2: echo(s) of either provider variant returns exactly s, for every
\* string s: the empty string and strings that begin like a command too.
C2_EchoReturnsInput == "echo" \in res.called => res.echo = arg.text

C2_Witness ==
    /\ "echo" \in res.called
    /\ res.provider = "PremiumUser"
    /\ arg.text = T_start
    /\ res.echo = T_start

\* C3: start() of the provider of any user is "hello!", and start and echo
\* give the same results for both variants.
C3_StartSameForAllTiers ==
    /\ "start" \in res.called => res.start = StrHello
    /\ start("RegularUser") = start("PremiumUser")
    /\ \A t \in Texts : echo("RegularUser", t) = echo("PremiumUser", t)

C3_Witness ==
    /\ "start" \in res.called
    /\ res.provider = "PremiumUser"
    /\ res.start = StrHello

-----------------------------------------------------------------------------
(* Properties of the handlers, under Spec *)

\* the reply_text calls made for update i
SentFor(i) == {k \in 1..Len(sent) : sent[k].upd = i}

\* the text of u is the command /<command>
Carries(command, u) ==
    /\ filters_COMMAND(u.text)
    /\ SubSeq(u.text, 2, BotCommandLength(u.text)) = command

\* the text of u is text that is not a command
PlainText(u) == filters_TEXT(u.text) /\ ~filters_COMMAND(u.text)

\* exactly one reply_text call was made for update i, to its chat, with text
OneReply(i, text) ==
    /\ Cardinality(SentFor(i)) = 1
    /\ \A k \in SentFor(i) :
          sent[k].chat = updates[i].chat /\ sent[k].text = text

\* C4: every update that carries /start has exactly one reply, to
\* its chat, with the start() of the provider of its user.
C4_StartRepliesOnce_AnyUpdate ==
    \A i \in 1..Len(updates) :
        Carries(CMD_start, updates[i]) =>
            OneReply(i, start(get_messages(updates[i].user)))

\* The replies of C4 hold for the updates that are new messages
\* (update.message is set).
StartRepliesOnce_NewMessage ==
    \A i \in 1..Len(updates) :
        Carries(CMD_start, updates[i]) /\ HasMessage(updates[i]) =>
            OneReply(i, start(get_messages(updates[i].user)))

StartRepliesOnce_Reached ==
    \E i \in 1..Len(updates) :
        /\ Carries(CMD_start, updates[i])
        /\ HasMessage(updates[i])
        /\ invoked[i] = "start"
        /\ pc[i] = "done"
        /\ SentFor(i) # {}

\* C5: every update that carries /help has exactly one reply, to
\* its chat, with the help() of the provider of its user.
C5_HelpRepliesOnce_AnyUpdate ==
    \A i \in 1..Len(updates) :
        Carries(CMD_help, updates[i]) =>
            OneReply(i, help(get_messages(updates[i].user)))

\* The replies of C5 hold for the updates that are new messages
\* (update.message is set).
HelpRepliesOnce_NewMessage ==
    \A i \in 1..Len(updates) :
        Carries(CMD_help, updates[i]) /\ HasMessage(updates[i]) =>
            OneReply(i, help(get_messages(updates[i].user)))

HelpRepliesOnce_Reached ==
    \E i \in 1..Len(updates) :
        /\ Carries(CMD_help, updates[i])
        /\ HasMessage(updates[i])
        /\ invoked[i] = "help"
        /\ updates[i].user.is_premium = "True"
        /\ pc[i] = "done"
        /\ SentFor(i) # {}

\* C6: every update whose text is not a command has exactly one
\* reply, to its chat, with the text of the update.
C6_EchoRepliesOnce_AnyUpdate ==
    \A i \in 1..Len(updates) :
        PlainText(updates[i]) => OneReply(i, updates[i].text)

\* The replies of C6 hold for the updates that are new messages
\* (update.message is set).
EchoRepliesOnce_NewMessage ==
    \A i \in 1..Len(updates) :
        PlainText(updates[i]) /\ HasMessage(updates[i]) =>
            OneReply(i, updates[i].text)

EchoRepliesOnce_Reached ==
    \E i \in 1..Len(updates) :
        /\ updates[i].text = T_ping
        /\ HasMessage(updates[i])
        /\ invoked[i] = "echo"
        /\ pc[i] = "done"
        /\ SentFor(i) # {}

\* C7: an update whose text is a command, registered or not, is never given
\* to the echo handler, and no reply repeats its text.
C7_CommandsNeverEchoed ==
    \A i \in 1..Len(updates) :
        filters_COMMAND(updates[i].text) =>
            /\ invoked[i] # "echo"
            /\ \A k \in SentFor(i) : sent[k].text # updates[i].text

C7_Witness ==
    \E i, j \in 1..Len(updates) :
        /\ updates[i].text = T_unknown
        /\ pc[i] = "ignored"
        /\ updates[j].text = T_start
        /\ pc[j] = "done"

\* the updates given to the instance h
Calls(h) == {i \in 1..Len(invoked) : invoked[i] = h}

\* the updates given to the instance h whose user get_messages accepted
Resolved(h) == {i \in Calls(h) : updates[i].user # NoneUser}

Max(S) == CHOOSE x \in S : \A y \in S : y <= x

\* C8 as claimed: nothing an invocation writes outlives it: whenever no
\* callback is in progress the handler instances are as constructed.
C8_Original ==
    (\A i \in 1..Len(pc) : pc[i] # "send") =>
        \A h \in HandlerNames : hUser[h] = NoneUser /\ hMessages[h] = Unset

\* C8 amended: the invocations of one registered handler share its instance
\* attributes user and messages, which outlive each invocation: at all times
\* user is the user of the latest update given to that instance and messages
\* the provider of the latest one whose user resolved.  An invocation writes
\* the attributes of no other instance.
C8_AttributesHoldLatestCall ==
    \A h \in HandlerNames :
        /\ hUser[h] = IF Calls(h) = {} THEN NoneUser
                      ELSE updates[Max(Calls(h))].user
        /\ hMessages[h] =
              IF Resolved(h) = {} THEN Unset
              ELSE IF Truthy(updates[Max(Resolved(h))].user.is_premium)
                   THEN "RegularUser" ELSE "PremiumUser"

C8_Witness ==
    \E i, j \in 1..Len(updates) :
        /\ i < j
        /\ invoked[i] = "help"
        /\ invoked[j] = "help"
        /\ pc[i] = "done"
        /\ pc[j] = "done"
        /\ updates[i].user.is_premium = "True"
        /\ updates[j].user.is_premium = "None"
        /\ hUser["help"] = updates[j].user
        /\ hMessages["help"] = "PremiumUser"
        /\ hUser["start"] = NoneUser

\* C9: an exception leaves the callback uncaught.  For an update without a
\* user the callback ends in get_messages and no reply_text call is made; a
\* reply_text that raises ends the callback after its single call; no update
\* ever has more than one reply_text call.
C9_ExceptionsPropagate ==
    \A i \in 1..Len(updates) :
        /\ invoked[i] # "none" /\ updates[i].user = NoneUser =>
              pc[i] = "raised in get_messages" /\ SentFor(i) = {}
        /\ pc[i] = "raised in reply_text" => Cardinality(SentFor(i)) = 1
        /\ Cardinality(SentFor(i)) <= 1

C9_Witness ==
    \E i, j \in 1..Len(updates) :
        /\ updates[i].user = NoneUser
        /\ invoked[i] = "echo"
        /\ pc[i] = "raised in get_messages"
        /\ pc[j] = "raised in reply_text"
        /\ Cardinality(SentFor(j)) = 1

\* C10: every reply_text call carries the text computed from the user and
\* the text of its own update, whatever other callbacks of the same handler
\* instance are suspended in reply_text at the time.
C10_ReplyFromOwnUpdate ==
    \A k \in 1..Len(sent) :
        LET u == updates[sent[k].upd]
            own == IF Truthy(u.user.is_premium)
                   THEN "RegularUser" ELSE "PremiumUser"
        IN  /\ u.user # NoneUser
            /\ sent[k].text =
                  CASE invoked[sent[k].upd] = "start" -> start(own)
                    [] invoked[sent[k].upd] = "help" -> help(own)
                    [] invoked[sent[k].upd] = "echo" -> u.text

C10_Witness ==
    \E i, j \in 1..Len(updates) :
        /\ i < j
        /\ invoked[i] = "help"
        /\ invoked[j] = "help"
        /\ pc[i] = "send"
        /\ pc[j] = "send"
        /\ updates[i].user.is_premium = "True"
        /\ updates[j].user.is_premium = "None"
        /\ hMessages["help"] = "PremiumUser"
        /\ \E k \in SentFor(i) : sent[k].text = StrNeedSubscription

=============================================================================
